---------------------------- MODULE Spec2Model ----------------------------
(***************************************************************************)
(* A model of matlabpy (src/src/matlabpy/matlabpy.py): the wrapper type M  *)
(* around a NumPy array, the literal parser mat(), call-style indexing and *)
(* the operators that forward to NumPy.                                    *)
(*                                                                         *)
(* Two levels are modelled.                                                *)
(*  - Value level: an ndarray is [shape, data] with data the row-major     *)
(*    (C order) flattening.  Pure functions of the library (mat, __call__, *)
(*    __mul__, emul, __pow__) are operators over such values and are       *)
(*    checked under specifications whose Init draws the inputs.            *)
(*  - Reference level: an ndarray is a view [base, shape, strides] onto a  *)
(*    buffer of the memory `mem`; an M object holds one view.  This level  *)
(*    decides which objects share storage (specification Spec).            *)
(*                                                                         *)
(* Matrix entries are floats in the code; the model keeps integer-valued   *)
(* entries, on which float arithmetic is exact.                            *)
(***************************************************************************)
EXTENDS Integers, Sequences, FiniteSets, TLC

VARIABLES
    pc,     \* position of the driver of a pure-function specification
    expr,   \* the literal handed to mat(), a sequence of characters
    X,      \* first operand (the object a method is called on)
    Y,      \* second operand / argument tuple
    ret,    \* what the call returned or raised
    objs,   \* reference level: the live M objects, each holding a view
    mem,    \* reference level: the array buffers, by buffer id
    last    \* reference level: the statement executed last

vars == <<pc, expr, X, Y, ret, objs, mem, last>>

-----------------------------------------------------------------------------
(* Bounds of the model *)

MaxLen == 5         \* longest literal enumerated exhaustively for mat()
MaxDim == 2         \* largest row / column count of an operand
MaxPow == 4         \* largest exponent tried for **

-----------------------------------------------------------------------------
(* Python values *)

None == [type |-> "NoneType"]
PyInt(v) == [type |-> "int", v |-> v]
PyFloat(v) == [type |-> "float", v |-> v]
Ok(v) == [tag |-> "ok", val |-> v]
Raise(e) == [tag |-> e]

RECURSIVE SumTo(_, _)
\* sum of f[1] + ... + f[n]
SumTo(f, n) == IF n = 0 THEN 0 ELSE SumTo(f, n - 1) + f[n]

RECURSIVE Flatten(_)
\* concatenation of a sequence of sequences
Flatten(ss) == IF ss = <<>> THEN <<>> ELSE Head(ss) \o Flatten(Tail(ss))

-----------------------------------------------------------------------------
(* str methods used by mat(): strings are sequences of one-character strings *)

IsSpace(ch) == ch \in {" ", "\n", "\t"}

RECURSIVE LStrip(_)
LStrip(s) == IF s # <<>> /\ IsSpace(Head(s)) THEN LStrip(Tail(s)) ELSE s

RECURSIVE RStrip(_)
RStrip(s) ==
    IF s # <<>> /\ IsSpace(s[Len(s)]) THEN RStrip(SubSeq(s, 1, Len(s) - 1)) ELSE s

\* str.strip()
str_strip(s) == RStrip(LStrip(s))

\* str.replace(old, new) for one-character old and new
str_replace(s, old, new) == [k \in 1..Len(s) |-> IF s[k] = old THEN new ELSE s[k]]

RECURSIVE str_split_sep(_, _)
\* str.split(sep): empty pieces are kept, "".split(";") is [""]
str_split_sep(s, sep) ==
    IF \A k \in 1..Len(s) : s[k] # sep
    THEN <<s>>
    ELSE LET p == CHOOSE k \in 1..Len(s) :
                      s[k] = sep /\ \A m \in 1..(k - 1) : s[m] # sep
         IN  <<SubSeq(s, 1, p - 1)>> \o str_split_sep(SubSeq(s, p + 1, Len(s)), sep)

RECURSIVE str_split_ws(_)
\* str.split(): split on runs of whitespace, no empty pieces
str_split_ws(s) ==
    LET t == LStrip(s)
    IN  IF t = <<>>
        THEN <<>>
        ELSE LET stops == {k \in 1..Len(t) : IsSpace(t[k])}
                 n == IF stops = {} THEN Len(t) + 1
                      ELSE CHOOSE k \in stops : \A m \in stops : k <= m
             IN  <<SubSeq(t, 1, n - 1)>> \o str_split_ws(SubSeq(t, n, Len(t)))

Digits == <<"0", "1", "2", "3", "4", "5", "6", "7", "8", "9">>
IsDigit(ch) == \E d \in 1..10 : Digits[d] = ch
DigitVal(ch) == (CHOOSE d \in 1..10 : Digits[d] = ch) - 1

RECURSIVE DecVal(_)
\* value of a non-empty string of decimal digits
DecVal(s) == IF s = <<>> THEN 0 ELSE 10 * DecVal(SubSeq(s, 1, Len(s) - 1)) + DigitVal(s[Len(s)])

\* the digits of a token after its optional sign
Unsigned(tok) == IF tok # <<>> /\ Head(tok) \in {"-", "+"} THEN Tail(tok) ELSE tok

\* float(x) on integer literals: an optional sign and at least one digit,
\* anything else raises ValueError
float(tok) ==
    LET body == Unsigned(tok)
    IN  IF body = <<>> \/ \E k \in 1..Len(body) : ~IsDigit(body[k])
        THEN Raise("ValueError")
        ELSE Ok(IF Head(tok) = "-" THEN 0 - DecVal(body) ELSE DecVal(body))

-----------------------------------------------------------------------------
(* Value level: ndarrays *)

NdArray(shape, data) == [type |-> "ndarray", shape |-> shape, data |-> data]

\* np.array(data, dtype=float) for a list of lists of floats: [] is the
\* one-dimensional empty array, equal row lengths give a 2-D array, ragged
\* rows raise ValueError
np_array_of_rows(data) ==
    IF data = <<>>
    THEN Ok(NdArray(<<0>>, <<>>))
    ELSE IF \A k \in 1..Len(data) : Len(data[k]) = Len(data[1])
         THEN Ok(NdArray(<<Len(data), Len(data[1])>>, Flatten(data)))
         ELSE Raise("ValueError")

\* the M object wrapping an ndarray
MObj(a) == [type |-> "M", A |-> a]

\* M.__init__ on a list of lists
M_init_rows(data) ==
    LET a == np_array_of_rows(data)
    IN  IF a.tag = "ok" THEN Ok(MObj(a.val)) ELSE a

\* M.__init__ on an M object (data.A.copy()), an ndarray or a number
\* (np.array(data, dtype=float)): at the value level the copy has the value
\* of the original, a number becomes a zero-dimensional array
M_init(data) ==
    IF data.type = "M" THEN MObj(data.A)
    ELSE IF data.type = "ndarray" THEN MObj(data)
    ELSE MObj(NdArray(<<>>, <<data.v>>))

\* M(...) around the result of a NumPy routine that may have raised
M_of(r) == IF r.tag = "ok" THEN Ok(M_init(r.val)) ELSE r

\* _unwrap
unwrap(x) == IF x.type = "M" THEN x.A ELSE x

-----------------------------------------------------------------------------
(* Value level: indexing *)

Rows(a) == a.shape[1]
Cols(a) == a.shape[2]

\* row-major strides, in elements, of an array of this shape
CStrides(shape) ==
    [k \in 1..Len(shape) |->
        IF k = Len(shape) THEN 1 ELSE shape[Len(shape)]]

\* ndarray[idx] for a tuple of Python values: a non-integer or one index too
\* many raises IndexError; an integer k on an axis of size n must satisfy
\* -n <= k < n and a negative k counts from the end; a full tuple yields the
\* element, a shorter one the sub-array
np_getitem(a, idx) ==
    LET nd == Len(a.shape)
        norm == [k \in 1..Len(idx) |->
                    IF idx[k].v < 0 THEN idx[k].v + a.shape[k] ELSE idx[k].v]
        st == CStrides(a.shape)
        off == SumTo([k \in 1..Len(idx) |-> norm[k] * st[k]], Len(idx))
    IN  IF Len(idx) > nd THEN Raise("IndexError")
        ELSE IF \E k \in 1..Len(idx) : idx[k].type # "int" THEN Raise("IndexError")
        ELSE IF \E k \in 1..Len(idx) :
                    idx[k].v < 0 - a.shape[k] \/ idx[k].v >= a.shape[k]
             THEN Raise("IndexError")
        ELSE IF Len(idx) = nd THEN Ok(PyFloat(a.data[off + 1]))
        ELSE IF Len(idx) = 0 THEN Ok(a)
        ELSE Ok(NdArray(<<a.shape[2]>>, SubSeq(a.data, off + 1, off + a.shape[2])))

\* M.__getitem__
M_getitem(self, key) == np_getitem(self.A, key)

\* __call__ without the shift to zero-based indices
M_call_unshifted(self, idx) == M_getitem(self, idx)

\* __call__ that rejects integer indices below 1, as MATLAB does
M_call_strict(self, idx) ==
    IF \E k \in 1..Len(idx) : idx[k].type = "int" /\ idx[k].v < 1
    THEN Raise("IndexError")
    ELSE np_getitem(self.A,
             [k \in 1..Len(idx) |->
                 IF idx[k].type = "int" THEN PyInt(idx[k].v - 1) ELSE idx[k]])

\* M.__call__: every int of idx is shifted by one, anything else is passed on
M_call(self, idx) ==
    np_getitem(self.A,
        [k \in 1..Len(idx) |->
            IF idx[k].type = "int" THEN PyInt(idx[k].v - 1) ELSE idx[k]])

-----------------------------------------------------------------------------
(* Value level: arithmetic *)

IsScalar(x) == x.type \in {"int", "float"}

\* a @ b for two-dimensional arrays and Python numbers: a number has no
\* dimension and is rejected, inner dimensions must agree
np_matmul(a, b) ==
    IF IsScalar(a) \/ IsScalar(b) THEN Raise("ValueError")
    ELSE IF Cols(a) # Rows(b) THEN Raise("ValueError")
    ELSE LET r == Rows(a)
             k == Cols(a)
             c == Cols(b)
         IN  Ok(NdArray(<<r, c>>,
                [n \in 1..(r * c) |->
                    LET i == (n - 1) \div c
                        j == (n - 1) % c
                    IN  SumTo([t \in 1..k |->
                                  a.data[i * k + t] * b.data[(t - 1) * c + j + 1]], k)]))

\* the shape two operands broadcast to, <<>> standing for a number
ShapeOf(x) == IF IsScalar(x) THEN <<>> ELSE x.shape
Broadcastable(sa, sb) ==
    \/ sa = <<>>
    \/ sb = <<>>
    \/ \A d \in 1..2 : sa[d] = sb[d] \/ sa[d] = 1 \/ sb[d] = 1
BroadcastShape(sa, sb) ==
    IF sa = <<>> THEN sb
    ELSE IF sb = <<>> THEN sa
    ELSE [d \in 1..2 |-> IF sa[d] = 1 THEN sb[d] ELSE sa[d]]

\* element (i, j), zero-based, of x stretched to a broadcast shape
BroadcastAt(x, i, j) ==
    IF IsScalar(x) THEN x.v
    ELSE x.data[(IF Rows(x) = 1 THEN 0 ELSE i) * Cols(x)
                  + (IF Cols(x) = 1 THEN 0 ELSE j) + 1]

RECURSIVE IntPow(_, _)
IntPow(x, n) == IF n = 0 THEN 1 ELSE x * IntPow(x, n - 1)

\* the scalar operation of a binary ufunc
Scalar(op, x, y) ==
    CASE op = "add" -> x + y
      [] op = "subtract" -> x - y
      [] op = "multiply" -> x * y
      [] op = "power" -> IntPow(x, y)

\* a binary ufunc (a + b, a - b, a * b, a ** b) on arrays and numbers
np_ufunc(op, a, b) ==
    IF ~Broadcastable(ShapeOf(a), ShapeOf(b)) THEN Raise("ValueError")
    ELSE LET sh == BroadcastShape(ShapeOf(a), ShapeOf(b))
         IN  IF sh = <<>> THEN Ok(PyFloat(Scalar(op, a.v, b.v)))
             ELSE Ok(NdArray(sh,
                    [n \in 1..(sh[1] * sh[2]) |->
                        Scalar(op,
                               BroadcastAt(a, (n - 1) \div sh[2], (n - 1) % sh[2]),
                               BroadcastAt(b, (n - 1) \div sh[2], (n - 1) % sh[2]))]))

\* np.eye(n)
np_eye(n) ==
    NdArray(<<n, n>>,
        [m \in 1..(n * n) |-> IF (m - 1) \div n = (m - 1) % n THEN 1 ELSE 0])

RECURSIVE matrix_power_loop(_, _, _, _, _)
\* the binary decomposition of np.linalg.matrix_power: z and result start
\* as None (hasZ, hasR false)
matrix_power_loop(a, z, hasZ, result, n) ==
    IF n <= 0 THEN result
    ELSE LET z2 == IF hasZ THEN np_matmul(z, z).val ELSE a
             bit == n % 2
             r2 == IF bit = 1
                   THEN (IF result.type = "NoneType" THEN z2
                         ELSE np_matmul(result, z2).val)
                   ELSE result
         IN  matrix_power_loop(a, z2, TRUE, r2, n \div 2)

\* np.linalg.matrix_power(a, n) for n >= 0: a must be square; n = 0 gives the
\* identity, 1, 2 and 3 are short cuts, larger n use the binary decomposition
np_matrix_power(a, n) ==
    IF Rows(a) # Cols(a) THEN Raise("LinAlgError")
    ELSE IF n = 0 THEN Ok(np_eye(Rows(a)))
    ELSE IF n = 1 THEN Ok(a)
    ELSE IF n = 2 THEN np_matmul(a, a)
    ELSE IF n = 3 THEN np_matmul(np_matmul(a, a).val, a)
    ELSE Ok(matrix_power_loop(a, None, FALSE, None, n))

\* M.emul as the matrix product
M_emul_matrix(self, other) == M_of(np_matmul(self.A, unwrap(other)))

\* M.emul
M_emul(self, other) == M_of(np_ufunc("multiply", self.A, unwrap(other)))

\* M.__mul__ as the elementwise product
M_mul_elementwise(self, other) == M_emul(self, other)

\* M.__mul__ that scales by a plain number instead of handing it to matmul
M_mul_scaling(self, other) ==
    IF IsScalar(other) THEN M_emul(self, other)
    ELSE M_of(np_matmul(self.A, unwrap(other)))

\* M.__mul__
M_mul(self, other) == M_of(np_matmul(self.A, unwrap(other)))

\* M.__add__, M.__sub__
M_add(self, other) == M_of(np_ufunc("add", self.A, unwrap(other)))
M_sub(self, other) == M_of(np_ufunc("subtract", self.A, unwrap(other)))

\* M.epow
M_epow(self, other) == M_of(np_ufunc("power", self.A, unwrap(other)))

\* M.__pow__ as the elementwise power
M_pow_elementwise(self, p) == M_epow(self, PyInt(p))

\* M.__pow__
M_pow(self, p) == M_of(np_matrix_power(self.A, p))

\* np.vstack of two 2-D arrays: the column counts must agree
np_vstack2(a, b) ==
    IF Cols(a) # Cols(b) THEN Raise("ValueError")
    ELSE Ok(NdArray(<<Rows(a) + Rows(b), Cols(a)>>, a.data \o b.data))

\* np.hstack of two 2-D arrays: the row counts must agree
np_hstack2(a, b) ==
    IF Rows(a) # Rows(b) THEN Raise("ValueError")
    ELSE LET w == Cols(a) + Cols(b)
         IN  Ok(NdArray(<<Rows(a), w>>,
                [n \in 1..(Rows(a) * w) |->
                    LET i == (n - 1) \div w
                        j == (n - 1) % w
                    IN  IF j < Cols(a) THEN a.data[i * Cols(a) + j + 1]
                        ELSE b.data[i * Cols(b) + (j - Cols(a)) + 1]]))

\* M.vcat with its two arguments stacked in the opposite order
M_vcat_reversed(a, b) == M_of(np_vstack2(unwrap(b), unwrap(a)))

\* M.vcat(a, b)
M_vcat(a, b) == M_of(np_vstack2(unwrap(a), unwrap(b)))

\* M.hcat(a, b)
M_hcat(a, b) == M_of(np_hstack2(unwrap(a), unwrap(b)))

\* zeros(r, c), ones(r, c), eye(n)
zeros(r, c) == M_init(NdArray(<<r, c>>, [n \in 1..(r * c) |-> 0]))
ones(r, c) == M_init(NdArray(<<r, c>>, [n \in 1..(r * c) |-> 1]))
eye(n) == M_init(np_eye(n))

-----------------------------------------------------------------------------
(* mat(): the literal parser *)

\* mat_rows without the newline-to-semicolon replacement
mat_rows_no_newline(e) ==
    LET rows == str_split_sep(str_strip(e), ";")
        stripped == [k \in 1..Len(rows) |-> str_strip(rows[k])]
    IN  SelectSeq(stripped, LAMBDA r : r # <<>>)

\* the row strings mat() keeps: stripped, non-empty
mat_rows(e) ==
    LET rows == str_split_sep(str_replace(str_strip(e), "\n", ";"), ";")
        stripped == [k \in 1..Len(rows) |-> str_strip(rows[k])]
    IN  SelectSeq(stripped, LAMBDA r : r # <<>>)

\* cols of one row: the tokens, each through float()
mat_cols(r) ==
    LET toks == str_split_ws(str_replace(r, ",", " "))
    IN  [t \in 1..Len(toks) |-> float(toks[t])]

mat(e) ==
    LET rows == mat_rows(e)
        cols == [k \in 1..Len(rows) |-> mat_cols(rows[k])]
    IN  IF \E k \in 1..Len(cols) : \E t \in 1..Len(cols[k]) : cols[k][t].tag # "ok"
        THEN Raise("ValueError")
        ELSE M_init_rows([k \in 1..Len(cols) |->
                             [t \in 1..Len(cols[k]) |-> cols[k][t].val]])

-----------------------------------------------------------------------------
(* Specification SpecMat: mat() applied to every short literal and to the  *)
(* literals of the docstring and the tests                                 *)

Alphabet == {"1", "2", "-", " ", ",", ";", "\n"}

RECURSIVE StringsUpTo(_)
StringsUpTo(n) ==
    IF n = 0 THEN {<<>>}
    ELSE LET shorter == StringsUpTo(n - 1)
         IN  shorter \cup {Append(s, ch) : s \in {t \in shorter : Len(t) = n - 1},
                                           ch \in Alphabet}

DocLiteralSpaces == <<"1", " ", "2", " ", "3", ";", " ", "4", " ", "5", " ", "6">>
DocLiteralCommas == <<"1", ",", "2", ",", "3", ";", "4", ",", "5", ",", "6">>
TestLiteralA == <<"1", " ", "2", ";", " ", "3", " ", "4">>
TestLiteralB == <<"5", " ", "6", ";", " ", "7", " ", "8">>
TestLiteralLines == <<" ", "1", " ", "2", "\n", "3", ",", "4", ";", "\n">>

Literals ==
    StringsUpTo(MaxLen)
        \cup {DocLiteralSpaces, DocLiteralCommas, TestLiteralA, TestLiteralB,
              TestLiteralLines}

IdleHeap == objs = <<>> /\ mem = <<>> /\ last = [op |-> "none", on |-> "A"]

InitMat ==
    /\ pc = "start"
    /\ expr \in Literals
    /\ X = None /\ Y = None /\ ret = None
    /\ IdleHeap

CallMat ==
    /\ pc = "start"
    /\ ret' = mat(expr)
    /\ pc' = "done"
    /\ UNCHANGED <<expr, X, Y, objs, mem, last>>

NextMat == CallMat

SpecMat == InitMat /\ [][NextMat]_vars

-----------------------------------------------------------------------------
(* The literal grammar as the documentation states it, independent of the  *)
(* order of strip / replace / split in mat()                               *)

RowSeps == {";", "\n"}
ColSeps == {" ", ","}

RECURSIVE SplitOnSet(_, _)
\* the pieces of s between characters of seps, empty pieces kept
SplitOnSet(s, seps) ==
    IF \A k \in 1..Len(s) : s[k] \notin seps
    THEN <<s>>
    ELSE LET p == CHOOSE k \in 1..Len(s) :
                      s[k] \in seps /\ \A m \in 1..(k - 1) : s[m] \notin seps
         IN  <<SubSeq(s, 1, p - 1)>> \o SplitOnSet(SubSeq(s, p + 1, Len(s)), seps)

\* the non-empty row segments of a literal, in order
RowSegments(e) ==
    SelectSeq(SplitOnSet(e, RowSeps), LAMBDA g : \E k \in 1..Len(g) : ~IsSpace(g[k]))

\* the tokens of a row segment, in order
Tokens(g) == SelectSeq(SplitOnSet(g, ColSeps), LAMBDA t : t # <<>>)

\* the token grid of a literal
Grid(e) == LET segs == RowSegments(e) IN [i \in 1..Len(segs) |-> Tokens(segs[i])]

\* every token numeric, at least one row, every row the same number C >= 1
\* of tokens
WellFormed(e) ==
    LET g == Grid(e)
    IN  /\ Len(g) >= 1
        /\ Len(g[1]) >= 1
        /\ \A i \in 1..Len(g) : Len(g[i]) = Len(g[1])
        /\ \A i \in 1..Len(g) : \A j \in 1..Len(g[i]) : float(g[i][j]).tag = "ok"

RECURSIVE Join(_, _)
\* the strings of ss with the character sep between them
Join(ss, sep) ==
    IF ss = <<>> THEN <<>>
    ELSE IF Len(ss) = 1 THEN ss[1]
    ELSE ss[1] \o <<sep>> \o Join(Tail(ss), sep)

\* the literal with the same token grid, one space between columns, one
\* semicolon between rows, nothing else
Canonical(e) ==
    LET g == Grid(e) IN Join([i \in 1..Len(g) |-> Join(g[i], " ")], ";")

\* C2: on a well-formed literal (R >= 1 non-empty row segments, each with the
\* same number C >= 1 of numeric tokens) mat returns an R-by-C matrix whose
\* entry (i, j) is the value of token j of segment i; hence literals with the
\* same token grid (other separators, surrounding whitespace, empty row
\* segments) give equal matrices, as the two literals of the docstring do.
C2_MatParsesGrid ==
    pc = "done" =>
        /\ WellFormed(expr) =>
              LET g == Grid(expr)
                  R == Len(g)
                  C == Len(g[1])
              IN  /\ ret.tag = "ok"
                  /\ ret.val.A.shape = <<R, C>>
                  /\ Len(ret.val.A.data) = R * C
                  /\ \A i \in 1..R : \A j \in 1..C :
                        ret.val.A.data[(i - 1) * C + j] = float(g[i][j]).val
                  /\ ret = mat(Canonical(expr))
        /\ RowSegments(expr) = <<>> => ret = mat(<<>>)
        /\ expr = DocLiteralSpaces =>
              /\ ret = mat(DocLiteralCommas)
              /\ ret.val.A = NdArray(<<2, 3>>, <<1, 2, 3, 4, 5, 6>>)

\* a 2-by-2 literal written with a comma, a newline, surrounding whitespace
\* and an empty trailing segment has been parsed
C2_Witness ==
    /\ pc = "done"
    /\ WellFormed(expr)
    /\ expr # Canonical(expr)
    /\ \E k \in 1..Len(expr) : expr[k] = ","
    /\ \E k \in 1..Len(expr) : expr[k] = "\n"
    /\ ret.tag = "ok"
    /\ ret.val.A = NdArray(<<2, 2>>, <<1, 2, 3, 4>>)

\* C7: whenever mat returns, the result is two-dimensional and rectangular
C7_MatAlwaysTwoDimensional ==
    (pc = "done" /\ ret.tag = "ok") =>
        /\ Len(ret.val.A.shape) = 2
        /\ Len(ret.val.A.data) = ret.val.A.shape[1] * ret.val.A.shape[2]

-----------------------------------------------------------------------------
(* Operands of the value-level specifications *)

Vals == {0, 1}

ArraysOfShape(r, c) == {NdArray(<<r, c>>, d) : d \in [1..(r * c) -> Vals]}

\* every matrix with at most MaxDim rows and columns and entries in Vals
Matrices == UNION {ArraysOfShape(r, c) : r \in 0..MaxDim, c \in 0..MaxDim}

\* second operands: per shape, the matrix counting 2, 3, 4, ... along its
\* rows and the matrix of twos
Counting(r, c) == NdArray(<<r, c>>, [n \in 1..(r * c) |-> n + 1])
Twos(r, c) == NdArray(<<r, c>>, [n \in 1..(r * c) |-> 2])
Arguments ==
    {MObj(Counting(r, c)) : r \in 0..MaxDim, c \in 0..MaxDim}
        \cup {MObj(Twos(r, c)) : r \in 0..MaxDim, c \in 0..MaxDim}
        \cup {PyInt(0), PyInt(3), PyFloat(2)}

IndexArgs == {PyInt(v) : v \in (0 - (MaxDim + 2))..(MaxDim + 2)} \cup {PyFloat(1)}

\* A(i, j) read as a number
Entry(m, i, j) == M_call(m, <<PyInt(i), PyInt(j)>>).val.v

-----------------------------------------------------------------------------
(* Specification SpecIndex: A(i, j) and A[i, j] on every small matrix      *)

InitIndex ==
    /\ pc = "start"
    /\ X \in {MObj(a) : a \in Matrices}
    /\ expr = <<>> /\ Y = None /\ ret = None
    /\ IdleHeap

\* A(i, j)
CallIndex ==
    /\ pc = "start"
    /\ \E i \in IndexArgs, j \in IndexArgs :
          /\ Y' = <<i, j>>
          /\ ret' = M_call(X, <<i, j>>)
    /\ pc' = "call"
    /\ UNCHANGED <<expr, X, objs, mem, last>>

\* A[i, j]
GetIndex ==
    /\ pc = "start"
    /\ \E i \in IndexArgs, j \in IndexArgs :
          /\ Y' = <<i, j>>
          /\ ret' = M_getitem(X, <<i, j>>)
    /\ pc' = "getitem"
    /\ UNCHANGED <<expr, X, objs, mem, last>>

NextIndex == CallIndex \/ GetIndex

SpecIndex == InitIndex /\ [][NextIndex]_vars

IntArgs == Y[1].type = "int" /\ Y[2].type = "int"

\* C1: for 1 <= i <= r and 1 <= j <= c, A(i, j) is the entry of row i and
\* column j counted from 1, the value of A[i-1, j-1]; A(1, 1) is the first
\* entry of the first row.
C1_CallIsOneBased ==
    (pc = "call" /\ IntArgs
        /\ Y[1].v \in 1..Rows(X.A) /\ Y[2].v \in 1..Cols(X.A)) =>
        /\ ret.tag = "ok"
        /\ ret = M_getitem(X, <<PyInt(Y[1].v - 1), PyInt(Y[2].v - 1)>>)
        /\ ret.val.v = X.A.data[(Y[1].v - 1) * Cols(X.A) + Y[2].v]
        /\ (Y[1].v = 1 /\ Y[2].v = 1) => ret.val.v = Head(X.A.data)

\* A(2, 1) of a matrix whose entries (1, 2) and (2, 1) differ has been read
C1_Witness ==
    /\ pc = "call" /\ IntArgs
    /\ X.A.shape = <<2, 2>>
    /\ Y[1].v = 2 /\ Y[2].v = 1
    /\ X.A.data[2] # X.A.data[3]
    /\ ret.tag = "ok"
    /\ ret.val.v = X.A.data[3]

\* C9: integer indices are only shifted: A(i, j) raises exactly when i > r,
\* i < -(r-1), j > c or j < -(c-1); for r >= 1, A(0, j) with 1 <= j <= c is
\* the entry of the last row, A(r, j), and for c >= 1, A(i, 0) with
\* 1 <= i <= r is the entry of the last column, A(i, c).
C9_ZeroAndNegativeIndicesWrap ==
    (pc = "call" /\ IntArgs) =>
        LET r == Rows(X.A)
            c == Cols(X.A)
            i == Y[1].v
            j == Y[2].v
        IN  /\ ret.tag \in {"ok", "IndexError"}
            /\ ret.tag = "IndexError" <=>
                  (i > r \/ i < 0 - (r - 1) \/ j > c \/ j < 0 - (c - 1))
            /\ (r >= 1 /\ i = 0 /\ j \in 1..c) =>
                  /\ ret.tag = "ok"
                  /\ ret.val.v = X.A.data[(r - 1) * c + j]
                  /\ ret = M_call(X, <<PyInt(r), PyInt(j)>>)
            /\ (c >= 1 /\ j = 0 /\ i \in 1..r) =>
                  /\ ret.tag = "ok"
                  /\ ret.val.v = X.A.data[(i - 1) * c + c]
                  /\ ret = M_call(X, <<PyInt(i), PyInt(c)>>)

\* A(0, 1) has returned the last row's entry, which differs from the first
\* row's, and a negative index has returned as well
C9_Witness ==
    /\ pc = "call" /\ IntArgs
    /\ X.A.shape = <<2, 2>>
    /\ Y[1].v = 0 /\ Y[2].v = 1
    /\ ret.tag = "ok"
    /\ ret.val.v = X.A.data[3]
    /\ X.A.data[1] # X.A.data[3]
    /\ M_call(X, <<PyInt(-1), PyInt(1)>>).tag = "ok"
    /\ M_call(X, <<PyInt(-2), PyInt(1)>>).tag = "IndexError"

-----------------------------------------------------------------------------
(* Specification SpecArith: A * B, A.emul(B) and A ** p                    *)

InitArith ==
    /\ pc = "start"
    /\ X \in {MObj(a) : a \in Matrices}
    /\ expr = <<>> /\ Y = None /\ ret = None
    /\ IdleHeap

\* A * other
Mul ==
    /\ pc = "start"
    /\ \E other \in Arguments :
          /\ Y' = other
          /\ ret' = M_mul(X, other)
    /\ pc' = "mul"
    /\ UNCHANGED <<expr, X, objs, mem, last>>

\* A.emul(other)
Emul ==
    /\ pc = "start"
    /\ \E other \in Arguments :
          /\ Y' = other
          /\ ret' = M_emul(X, other)
    /\ pc' = "emul"
    /\ UNCHANGED <<expr, X, objs, mem, last>>

\* A ** p
Pow ==
    /\ pc = "start"
    /\ \E p \in 0..MaxPow :
          /\ Y' = PyInt(p)
          /\ ret' = M_pow(X, p)
    /\ pc' = "pow"
    /\ UNCHANGED <<expr, X, objs, mem, last>>

NextArith == Mul \/ Emul \/ Pow

SpecArith == InitArith /\ [][NextArith]_vars

\* C3: for A r-by-k and B k-by-c, A * B is an r-by-c matrix with
\* (A * B)(i, j) = sum over t = 1..k of A(i, t) * B(t, j).
C3_MulIsMatrixProduct ==
    (pc = "mul" /\ Y.type = "M" /\ Cols(X.A) = Rows(Y.A)) =>
        /\ ret.tag = "ok"
        /\ ret.val.type = "M"
        /\ ret.val.A.shape = <<Rows(X.A), Cols(Y.A)>>
        /\ \A i \in 1..Rows(X.A) : \A j \in 1..Cols(Y.A) :
              Entry(ret.val, i, j) =
                  SumTo([t \in 1..Cols(X.A) |-> Entry(X, i, t) * Entry(Y, t, j)],
                        Cols(X.A))

\* two 2-by-2 matrices have been multiplied and the product is not the
\* per-entry product
C3_Witness ==
    /\ pc = "mul" /\ Y.type = "M"
    /\ X.A.shape = <<2, 2>> /\ Y.A.shape = <<2, 2>>
    /\ ret.tag = "ok"
    /\ \E n \in 1..4 : ret.val.A.data[n] # X.A.data[n] * Y.A.data[n]

\* C4: for A and B of the same shape, A.emul(B) has that shape and entry
\* (i, j) equal to A(i, j) * B(i, j); it equals B.emul(A).
C4_EmulIsElementwise ==
    (pc = "emul" /\ Y.type = "M" /\ X.A.shape = Y.A.shape) =>
        /\ ret.tag = "ok"
        /\ ret.val.type = "M"
        /\ ret.val.A.shape = X.A.shape
        /\ \A i \in 1..Rows(X.A) : \A j \in 1..Cols(X.A) :
              Entry(ret.val, i, j) = Entry(X, i, j) * Entry(Y, i, j)
        /\ ret = M_emul(Y, X)

\* the elementwise product of two 2-by-2 matrices has been taken and it
\* differs from their matrix product
C4_Witness ==
    /\ pc = "emul" /\ Y.type = "M"
    /\ X.A.shape = <<2, 2>> /\ Y.A.shape = <<2, 2>>
    /\ ret.tag = "ok"
    /\ M_mul(X, Y).tag = "ok"
    /\ ret # M_mul(X, Y)

RECURSIVE ProductOfCopies(_, _)
\* A * A * ... * A with p >= 1 factors, by __mul__ from the left
ProductOfCopies(A, p) ==
    IF p = 1 THEN A ELSE M_mul(ProductOfCopies(A, p - 1), A).val

\* C5: for square A, A ** p with p >= 1 is the product of p copies of A, so
\* A ** 2 = A * A and A ** p = (A ** (p-1)) * A; A ** 0 is the identity of
\* A's size.
C5_PowIsMatrixPower ==
    (pc = "pow" /\ Rows(X.A) = Cols(X.A)) =>
        /\ ret.tag = "ok"
        /\ Y.v >= 1 => ret.val = ProductOfCopies(X, Y.v)
        /\ Y.v = 2 => ret = M_mul(X, X)
        /\ Y.v >= 2 => ret = M_mul(M_pow(X, Y.v - 1).val, X)
        /\ Y.v = 0 =>
              /\ ret.val.A.shape = X.A.shape
              /\ \A i \in 1..Rows(X.A) : \A j \in 1..Cols(X.A) :
                    Entry(ret.val, i, j) = IF i = j THEN 1 ELSE 0

\* the fourth power of a 2-by-2 matrix has been taken and it is not the
\* matrix of fourth powers of the entries
C5_Witness ==
    /\ pc = "pow"
    /\ X.A.shape = <<2, 2>>
    /\ Y.v = 4
    /\ ret.tag = "ok"
    /\ \E n \in 1..4 : ret.val.A.data[n] # IntPow(X.A.data[n], 4)

\* C10: A * s for a plain number s raises and leaves A unchanged, while
\* A.emul(s) returns A scaled by s.
C10_MulRejectsScalars ==
    [][(pc = "start" /\ pc' = "mul" /\ IsScalar(Y')) =>
          /\ ret'.tag = "ValueError"
          /\ X' = X
          /\ M_emul(X, Y').tag = "ok"
          /\ M_emul(X, Y').val.A =
                NdArray(X.A.shape, [n \in 1..Len(X.A.data) |-> X.A.data[n] * Y'.v])]_vars

\* a 2-by-2 matrix with a non-zero entry has been multiplied by the number 3
C10_Witness ==
    /\ pc = "mul"
    /\ Y = PyInt(3)
    /\ X.A.shape = <<2, 2>>
    /\ \E n \in 1..4 : X.A.data[n] # 0
    /\ ret.tag # "ok"

-----------------------------------------------------------------------------
(* Reference level: buffers, views and the objects bound to the names of a *)
(* driver program.  A statement  t = <expression>  rebinds the name t; a   *)
(* buffer no object refers to any more is freed.                           *)

NameSeq == <<"A", "B">>
Names == {NameSeq[k] : k \in 1..Len(NameSeq)}
BufIds == {1, 2, 3, 4}
HeapDims == {1, 2}
Keys == {0, 1}
\* a buffer: the elements it holds, or no allocation
Buffer(d) == [used |-> TRUE, data |-> d]
Free == [used |-> FALSE, data |-> <<>>]
Unbound == [type |-> "NoneType"]

Bound(n) == objs[n].type = "M"

\* the value of a view: element (i, j) lies at i * strides[1] + j * strides[2]
LoadView(m, v) ==
    NdArray(v.shape,
        [n \in 1..(v.shape[1] * v.shape[2]) |->
            m[v.base].data[((n - 1) \div v.shape[2]) * v.strides[1]
                        + ((n - 1) % v.shape[2]) * v.strides[2] + 1]])

\* the value of the object bound to a name
ValueOf(n) == MObj(LoadView(mem, objs[n].A))

\* a new array holding the value a, in a buffer of its own
NewArray(m, a) ==
    LET b == CHOOSE id \in BufIds :
                 ~m[id].used /\ \A o \in BufIds : ~m[o].used => id <= o
    IN  [mem |-> [m EXCEPT ![b] = Buffer(a.data)],
         A |-> [base |-> b, shape |-> a.shape, strides |-> CStrides(a.shape)]]

\* ndarray.T: a view of the same buffer with shape and strides reversed
TransposeView(v) ==
    [base |-> v.base, shape |-> <<v.shape[2], v.shape[1]>>,
     strides |-> <<v.strides[2], v.strides[1]>>]

\* M.__init__ that keeps the array it is given instead of copying it
M_init_ref_shared(m, v) == [mem |-> m, A |-> v]

\* M.__init__ at the reference level: data.A.copy() and np.array(data,
\* dtype=float) both put the elements into a new buffer
M_init_ref(m, v) == NewArray(m, LoadView(m, v))

\* M(<array a just returned by a NumPy routine>)
M_of_result(m, a) ==
    LET tmp == NewArray(m, a) IN M_init_ref(tmp.mem, tmp.A)

\* the statement  t = <object made by M.__init__>: bind, free what is no
\* longer referred to, and name each buffer by the first name that holds a
\* view of it (buffer ids are addresses: only "same buffer" is observable)
Bind(t, made) ==
    LET bound == [objs EXCEPT ![t] = [type |-> "M", A |-> made.A]]
        first(n) == CHOOSE k \in 1..Len(NameSeq) :
                        /\ bound[NameSeq[k]].type = "M"
                        /\ bound[NameSeq[k]].A.base = bound[n].A.base
                        /\ \A m \in 1..(k - 1) :
                              bound[NameSeq[m]].type = "M" =>
                                  bound[NameSeq[m]].A.base # bound[n].A.base
    IN  /\ objs' = [n \in Names |->
                       IF bound[n].type = "M"
                       THEN [bound[n] EXCEPT !.A.base = first(n)]
                       ELSE Unbound]
        /\ mem' = [b \in BufIds |->
                      IF b <= Len(NameSeq) /\ bound[NameSeq[b]].type = "M"
                            /\ first(NameSeq[b]) = b
                      THEN made.mem[bound[NameSeq[b]].A.base]
                      ELSE Free]

\* results the bounded state can hold
InHeapRange(a) ==
    /\ a.shape[1] \in HeapDims /\ a.shape[2] \in HeapDims
    /\ \A n \in 1..Len(a.data) : a.data[n] \in Vals

HeapLiterals == {<<"1", " ", "0">>, <<"0", ";", "1">>, <<"1", ",", "1", "\n", "0", " ", "1">>}

IdleValues == pc = "heap" /\ expr = <<>> /\ X = None /\ Y = None /\ ret = None

Init ==
    /\ IdleValues
    /\ objs = [n \in Names |-> Unbound]
    /\ mem = [b \in BufIds |-> Free]
    /\ last = [op |-> "start", on |-> "A"]

\* t = zeros(r, c)
NewZeros(t, r, c) ==
    /\ Bind(t, M_of_result(mem, zeros(r, c).A))
    /\ last' = [op |-> "new", on |-> t]
    /\ UNCHANGED <<pc, expr, X, Y, ret>>

\* t = ones(r, c)
NewOnes(t, r, c) ==
    /\ Bind(t, M_of_result(mem, ones(r, c).A))
    /\ last' = [op |-> "new", on |-> t]
    /\ UNCHANGED <<pc, expr, X, Y, ret>>

\* t = eye(n)
NewEye(t, n) ==
    /\ Bind(t, M_of_result(mem, eye(n).A))
    /\ last' = [op |-> "new", on |-> t]
    /\ UNCHANGED <<pc, expr, X, Y, ret>>

\* t = mat(e): M.__init__ receives a list, np.array builds the array
NewMat(t, e) ==
    /\ mat(e).tag = "ok"
    /\ Bind(t, NewArray(mem, mat(e).val.A))
    /\ last' = [op |-> "new", on |-> t]
    /\ UNCHANGED <<pc, expr, X, Y, ret>>

\* t = M(s)
CopyOf(t, s) ==
    /\ Bound(s)
    /\ Bind(t, M_init_ref(mem, objs[s].A))
    /\ last' = [op |-> "derive", on |-> t]
    /\ UNCHANGED <<pc, expr, X, Y, ret>>

\* t = s.T
Transpose(t, s) ==
    /\ Bound(s)
    /\ Bind(t, M_init_ref(mem, TransposeView(objs[s].A)))
    /\ last' = [op |-> "derive", on |-> t]
    /\ UNCHANGED <<pc, expr, X, Y, ret>>

\* t = s.H: conj() returns a new array, .T a view of it
Hermitian(t, s) ==
    /\ Bound(s)
    /\ LET c == NewArray(mem, LoadView(mem, objs[s].A))
       IN  Bind(t, M_init_ref(c.mem, TransposeView(c.A)))
    /\ last' = [op |-> "derive", on |-> t]
    /\ UNCHANGED <<pc, expr, X, Y, ret>>

\* the statement  t = <M object r returned by an operator or a static method>
Assign(t, r, op) ==
    /\ r.tag = "ok"
    /\ Bind(t, M_of_result(mem, r.val.A))
    /\ last' = [op |-> op, on |-> t]
    /\ UNCHANGED <<pc, expr, X, Y, ret>>

\* the same, for results the bounded state of Spec can hold
Derive(t, r, op) ==
    /\ r.tag = "ok"
    /\ InHeapRange(r.val.A)
    /\ Assign(t, r, op)

\* t = a + b
AddObj(t, a, b) == Bound(a) /\ Bound(b) /\ Derive(t, M_add(ValueOf(a), ValueOf(b)), "derive")

\* t = a - b
SubObj(t, a, b) == Bound(a) /\ Bound(b) /\ Derive(t, M_sub(ValueOf(a), ValueOf(b)), "derive")

\* t = a * b
MulObj(t, a, b) == Bound(a) /\ Bound(b) /\ Derive(t, M_mul(ValueOf(a), ValueOf(b)), "derive")

\* t = a.emul(b)
EmulObj(t, a, b) == Bound(a) /\ Bound(b) /\ Derive(t, M_emul(ValueOf(a), ValueOf(b)), "derive")

\* t = M.hcat(a, b)
Hcat(t, a, b) == Bound(a) /\ Bound(b) /\ Derive(t, M_hcat(ValueOf(a), ValueOf(b)), "derive")

\* t = M.vcat(a, b), whatever the size of the result
VcatStmt(t, a, b) == Bound(a) /\ Bound(b) /\ Assign(t, M_vcat(ValueOf(a), ValueOf(b)), "vcat")

\* t = M.vcat(a, b)
Vcat(t, a, b) == Bound(a) /\ Bound(b) /\ Derive(t, M_vcat(ValueOf(a), ValueOf(b)), "vcat")

\* s[i, j] = v with both indices in range (out of range raises IndexError
\* and changes nothing): the element is written into the buffer of s's view
SetItem(s, i, j, v) ==
    /\ Bound(s)
    /\ i < objs[s].A.shape[1] /\ j < objs[s].A.shape[2]
    /\ LET a == objs[s].A
       IN  mem' = [mem EXCEPT ![a.base].data[i * a.strides[1] + j * a.strides[2] + 1] = v]
    /\ last' = [op |-> "setitem", on |-> s]
    /\ UNCHANGED <<pc, expr, X, Y, ret, objs>>

Next ==
    \/ \E t \in Names, r \in HeapDims, c \in HeapDims : NewZeros(t, r, c)
    \/ \E t \in Names, r \in HeapDims, c \in HeapDims : NewOnes(t, r, c)
    \/ \E t \in Names, n \in HeapDims : NewEye(t, n)
    \/ \E t \in Names, e \in HeapLiterals : NewMat(t, e)
    \/ \E t \in Names, s \in Names : CopyOf(t, s)
    \/ \E t \in Names, s \in Names : Transpose(t, s)
    \/ \E t \in Names, s \in Names : Hermitian(t, s)
    \/ \E t \in Names, a \in Names, b \in Names : AddObj(t, a, b)
    \/ \E t \in Names, a \in Names, b \in Names : SubObj(t, a, b)
    \/ \E t \in Names, a \in Names, b \in Names : MulObj(t, a, b)
    \/ \E t \in Names, a \in Names, b \in Names : EmulObj(t, a, b)
    \/ \E t \in Names, a \in Names, b \in Names : Hcat(t, a, b)
    \/ \E t \in Names, a \in Names, b \in Names : Vcat(t, a, b)
    \/ \E s \in Names, i \in Keys, j \in Keys, v \in Vals : SetItem(s, i, j, v)

Spec == Init /\ [][Next]_vars

\* C8: an element assignment on one object changes the entries of no other
\* object, and no two objects hold views of the same buffer.
C8_NoSharedStorage ==
    [][\A s \in Names, i \in Keys, j \in Keys, v \in Vals :
          SetItem(s, i, j, v) =>
              /\ \A n \in Names \ {s} :
                    /\ objs'[n] = objs[n]
                    /\ Bound(n) =>
                          /\ objs[n].A.base # objs[s].A.base
                          /\ LoadView(mem', objs'[n].A) = LoadView(mem, objs[n].A)
              /\ LoadView(mem', objs'[s].A).data[i * objs[s].A.shape[2] + j + 1] = v]_vars

\* an element of B has just been assigned while A is bound, and A and B,
\* of the same shape, now differ
C8_Witness ==
    /\ last = [op |-> "setitem", on |-> "B"]
    /\ Bound("A") /\ Bound("B")
    /\ objs["A"].A.shape = <<2, 2>>
    /\ objs["B"].A.shape = <<2, 2>>
    /\ ValueOf("A").A.data = <<1, 1, 0, 1>>
    /\ ValueOf("B").A.data = <<1, 0, 0, 1>>

-----------------------------------------------------------------------------
(* Specification SpecCat: one M.vcat statement on two bound objects, A any *)
(* small matrix and B one of the second operands                           *)

InitCat ==
    /\ IdleValues
    /\ \E a \in Matrices, b \in {x.A : x \in {y \in Arguments : y.type = "M"}} :
          /\ objs = [n \in Names |->
                        IF n = "A"
                        THEN [type |-> "M",
                              A |-> [base |-> 1, shape |-> a.shape,
                                     strides |-> CStrides(a.shape)]]
                        ELSE [type |-> "M",
                              A |-> [base |-> 2, shape |-> b.shape,
                                     strides |-> CStrides(b.shape)]]]
          /\ mem = [id \in BufIds |->
                       IF id = 1 THEN Buffer(a.data)
                       ELSE IF id = 2 THEN Buffer(b.data)
                       ELSE Free]
    /\ last = [op |-> "start", on |-> "A"]

\* the one statement of the driver: t = M.vcat(a, b)
VcatOnce(t, a, b) == last.op = "start" /\ VcatStmt(t, a, b)

NextCat == \E t \in Names, a \in Names, b \in Names : VcatOnce(t, a, b)

SpecCat == InitCat /\ [][NextCat]_vars

\* C6: C = M.vcat(A, B) for A and B with the same number of columns has
\* rA + rB rows and that many columns, its first rA rows are A's and the
\* rest are B's, in order; every object other than the one the result is
\* bound to keeps its entries.
C6_VcatStacksInOrder ==
    [][\A t \in Names, a \in Names, b \in Names :
          VcatStmt(t, a, b) =>
              LET A == ValueOf(a)
                  B == ValueOf(b)
                  C == MObj(LoadView(mem', objs'[t].A))
              IN  /\ Cols(A.A) = Cols(B.A)
                  /\ C.A.shape = <<Rows(A.A) + Rows(B.A), Cols(A.A)>>
                  /\ \A i \in 1..Rows(A.A) : \A j \in 1..Cols(A.A) :
                        Entry(C, i, j) = Entry(A, i, j)
                  /\ \A i \in (Rows(A.A) + 1)..(Rows(A.A) + Rows(B.A)) :
                        \A j \in 1..Cols(A.A) :
                            Entry(C, i, j) = Entry(B, i - Rows(A.A), j)
                  /\ \A n \in Names \ {t} :
                        /\ objs'[n] = objs[n]
                        /\ Bound(n) => LoadView(mem', objs'[n].A) = LoadView(mem, objs[n].A)]_vars

\* B = M.vcat(A, B) has just put the two rows of A above the single row
\* <<2, 3>> of B, and A still holds its two rows, which differ
C6_Witness ==
    /\ last = [op |-> "vcat", on |-> "B"]
    /\ Bound("A") /\ Bound("B")
    /\ objs["A"].A.shape = <<2, 2>>
    /\ objs["B"].A.shape = <<3, 2>>
    /\ ValueOf("A").A.data = <<0, 1, 1, 1>>
    /\ ValueOf("B").A.data = <<0, 1, 1, 1, 2, 3>>
    /\ objs["A"].A.base # objs["B"].A.base

=============================================================================
